---- MODULE Spec2Model ----
(***************************************************************************)
(* A model of src/StockDashboard.jsx: the synthetic price-history          *)
(* generator, the useStockData lookup hook, the App handlers that drive it *)
(* and the chart projection.                                               *)
(*                                                                         *)
(* Representation.  Text is a sequence of one-character strings, so that   *)
(* toUpperCase, trim and comparisons work character by character.  Decimal *)
(* numbers of MOCK_STOCKS are held in hundredths (189.3 is 18930).  The    *)
(* generator's running price is held in thousandths of a dollar and the    *)
(* bars it pushes in hundredths (toFixed(2)).  A calendar date is a day    *)
(* number (days since 1970-01-01, local time).  Math.random() is a value   *)
(* u in 0..RandMod-1 standing for U = u / RandMod.                         *)
(***************************************************************************)
EXTENDS Integers, Sequences, FiniteSets, TLC

VARIABLES
  today,         \* new Date(): the current calendar day (day number)
  activeSymbol,  \* App state, line 501
  searchInput,   \* App state, line 504
  data,          \* useStockData state, line 109
  history,       \* useStockData state, line 110 (GenSpec: the generator's result)
  loading,       \* useStockData state, line 111
  error,         \* useStockData state, line 112
  pending,       \* fetchData calls suspended at the await of line 121
  issued,        \* number of fetchData calls that got past line 115
  resolved,      \* log of the calls that ran lines 123-141, in that order
  call,          \* arguments of the last generatePriceHistory call, or NoCall
  timeframe,     \* PriceChart state, line 241
  sortKey,       \* StockTable state, line 342
  sortDir,       \* StockTable state, line 343
  filter,        \* StockTable state, line 344
  sectorFilter,  \* StockTable state, line 345
  mockStocks,    \* the MOCK_STOCKS object at run time: its entries in key order
  processedStocks \* the memoised value of lines 367-403, as last rendered

\* The table's state and what its render reads and produces.
tableVars == <<sortKey, sortDir, filter, sectorFilter, mockStocks,
               processedStocks>>

vars == <<today, activeSymbol, searchInput, data, history, loading,
          error, pending, issued, resolved, call, timeframe, tableVars>>

-----------------------------------------------------------------------------
(* Bounds of the model *)

\* Largest number of fetchData calls in one run.
MaxLookups == 3

\* Largest dayCount given to generatePriceHistory in GenSpec.
MaxDayCount == 100

\* First of the seven consecutive days "today" is drawn from
\* (19783 is Friday 2024-03-01: the windows span a leap day and a new year).
FirstToday == 19783

Todays == FirstToday .. (FirstToday + 6)

\* Seeds of the random streams a generatePriceHistory call may consume.
Seeds == {0, 63}

-----------------------------------------------------------------------------
(* Evaluation *)

\* F(v), with v evaluated once, before F is applied to it (a const binding).
With(v, F(_)) == CHOOSE r \in {F(x) : x \in {v}} : TRUE

-----------------------------------------------------------------------------
(* Text *)

LowerCase == <<"a","b","c","d","e","f","g","h","i","j","k","l","m",
               "n","o","p","q","r","s","t","u","v","w","x","y","z">>

UpperCase == <<"A","B","C","D","E","F","G","H","I","J","K","L","M",
               "N","O","P","Q","R","S","T","U","V","W","X","Y","Z">>

\* One character of String.prototype.toUpperCase.
UpperChar(c) ==
  IF \E i \in 1..Len(LowerCase) : LowerCase[i] = c
  THEN UpperCase[CHOOSE i \in 1..Len(LowerCase) : LowerCase[i] = c]
  ELSE c

\* String.prototype.toUpperCase.
ToUpperCase(s) == [i \in 1..Len(s) |-> UpperChar(s[i])]

RECURSIVE TrimStart(_)
TrimStart(s) ==
  IF s # <<>> /\ Head(s) = " " THEN TrimStart(Tail(s)) ELSE s

RECURSIVE TrimEnd(_)
TrimEnd(s) ==
  IF s # <<>> /\ s[Len(s)] = " " THEN TrimEnd(SubSeq(s, 1, Len(s) - 1)) ELSE s

\* String.prototype.trim.
Trim(s) == TrimEnd(TrimStart(s))

-----------------------------------------------------------------------------
(* MOCK_STOCKS, in insertion order *)

MOCK_STOCKS ==
  <<
     [symbol |-> <<"A","A","P","L">>,
      name |-> <<"A","p","p","l","e"," ","I","n","c",".">>,
      price |-> 18930, change |-> 124, changePercent |-> 66,
      marketCap |-> <<"2",".","9","4","T">>, pe |-> 2940,
      volume |-> <<"5","8",".","2","M">>, sector |-> "Technology"],
     [symbol |-> <<"M","S","F","T">>,
      name |-> <<"M","i","c","r","o","s","o","f","t"," ","C","o","r","p",".">>,
      price |-> 41520, change |-> -210, changePercent |-> -50,
      marketCap |-> <<"3",".","0","8","T">>, pe |-> 3470,
      volume |-> <<"2","2",".","1","M">>, sector |-> "Technology"],
     [symbol |-> <<"G","O","O","G","L">>,
      name |-> <<"A","l","p","h","a","b","e","t"," ","I","n","c",".">>,
      price |-> 17280, change |-> 345, changePercent |-> 204,
      marketCap |-> <<"2",".","1","7","T">>, pe |-> 2410,
      volume |-> <<"1","9",".","8","M">>, sector |-> "Technology"],
     [symbol |-> <<"A","M","Z","N">>,
      name |-> <<"A","m","a","z","o","n",".","c","o","m"," ","I","n","c",".">>,
      price |-> 20140, change |-> -80, changePercent |-> -40,
      marketCap |-> <<"2",".","1","3","T">>, pe |-> 4420,
      volume |-> <<"3","1",".","5","M">>, sector |-> "Consumer"],
     [symbol |-> <<"T","S","L","A">>,
      name |-> <<"T","e","s","l","a"," ","I","n","c",".">>,
      price |-> 24850, change |-> 820, changePercent |-> 341,
      marketCap |-> <<"7","9","2","B">>, pe |-> 7310,
      volume |-> <<"1","1","2",".","4","M">>, sector |-> "Automotive"],
     [symbol |-> <<"M","E","T","A">>,
      name |-> <<"M","e","t","a"," ","P","l","a","t","f","o","r","m","s">>,
      price |-> 52470, change |-> 630, changePercent |-> 122,
      marketCap |-> <<"1",".","3","4","T">>, pe |-> 2680,
      volume |-> <<"1","4",".","9","M">>, sector |-> "Technology"],
     [symbol |-> <<"N","V","D","A">>,
      name |-> <<"N","V","I","D","I","A"," ","C","o","r","p",".">>,
      price |-> 87540, change |-> 2210, changePercent |-> 259,
      marketCap |-> <<"2",".","1","6","T">>, pe |-> 6730,
      volume |-> <<"4","4",".","7","M">>, sector |-> "Semiconductors"],
     [symbol |-> <<"J","P","M">>,
      name |-> <<"J","P","M","o","r","g","a","n"," ","C","h","a","s","e">>,
      price |-> 21360, change |-> -120, changePercent |-> -56,
      marketCap |-> <<"6","1","3","B">>, pe |-> 1140,
      volume |-> <<"8",".","3","M">>, sector |-> "Finance"],
     [symbol |-> <<"B","R","K">>,
      name |-> <<"B","e","r","k","s","h","i","r","e"," ","H","a","t","h","a","w","a","y">>,
      price |-> 42410, change |-> 90, changePercent |-> 21,
      marketCap |-> <<"9","2","7","B">>, pe |-> 2120,
      volume |-> <<"3",".","1","M">>, sector |-> "Finance"],
     [symbol |-> <<"V">>,
      name |-> <<"V","i","s","a"," ","I","n","c",".">>,
      price |-> 27630, change |-> 180, changePercent |-> 66,
      marketCap |-> <<"5","5","4","B">>, pe |-> 3010,
      volume |-> <<"6",".","7","M">>, sector |-> "Finance"]
  >>

\* The own keys of MOCK_STOCKS.
StockKeys == {MOCK_STOCKS[i].symbol : i \in 1..Len(MOCK_STOCKS)}

\* undefined / null.
Null == [null |-> TRUE]

\* MOCK_STOCKS[upperSym]: the entry, or undefined.
StockInfo(upperSym) ==
  IF upperSym \in StockKeys
  THEN MOCK_STOCKS[CHOOSE i \in 1..Len(MOCK_STOCKS) : MOCK_STOCKS[i].symbol = upperSym]
  ELSE Null

-----------------------------------------------------------------------------
(* Dates *)

\* Date.prototype.getDay: 0 is Sunday, 6 is Saturday (day 0 was a Thursday).
GetDay(date) == (date + 4) % 7

\* Day of the year counted from March 1 (0..365), proleptic Gregorian.
DayOfMarchYear(date) ==
  With((date + 719468) % 146097,
       LAMBDA doe :
         With((doe - doe \div 1460 + doe \div 36524 - doe \div 146096) \div 365,
              LAMBDA yoe : doe - (365 * yoe + yoe \div 4 - yoe \div 100)))

\* Month (1..12) and day of the month of a day number.
MonthDay(date) ==
  With(DayOfMarchYear(date),
       LAMBDA doy :
         With((5 * doy + 2) \div 153,
              LAMBDA mp : << IF mp < 10 THEN mp + 3 ELSE mp - 9,
                             doy - (153 * mp + 2) \div 5 + 1 >>))

MonthShort == <<"Jan","Feb","Mar","Apr","May","Jun",
                "Jul","Aug","Sep","Oct","Nov","Dec">>

\* toLocaleDateString("en-US", {month: "short", day: "numeric"}): "Jan 5".
DateLabel(date) ==
  With(MonthDay(date), LAMBDA md : <<MonthShort[md[1]], md[2]>>)

-----------------------------------------------------------------------------
(* generatePriceHistory *)

\* Math.random() yields u / RandMod.
RandMod == 100

RandStride == 37

\* The k-th value (k = 0, 1, ...) of the random stream with the given seed.
Random(seed, k) == (seed + k * RandStride) % RandMod

\* Number of Math.random() calls per bar (lines 62, 65, 66, 67, 68).
DrawsPerBar == 5

\* The default of the days parameter.
DefaultDays == 90

\* parseFloat(x.toFixed(2)): thousandths rounded to hundredths.
ToFixed2(x) == (x + 5) \div 10

\* The loop's first offset: let i = days.
LoopStart(days) == days

\* Mutant of LoopEnd: the loop stops before today (i > 0).
LoopEndBeforeToday == 0 + 1

\* The loop's last offset: i >= 0.
LoopEnd == 0

\* Mutant of IsWeekend: only Sunday is skipped.
IsWeekendSundayOnly(date) == GetDay(date) = 0

\* Mutant of IsWeekend: the days are numbered from Monday = 0, so Friday and
\* Saturday are skipped.
IsWeekendFridaySaturday(date) == GetDay(date) = 5 \/ GetDay(date) = 6

\* The weekend test of line 59.
IsWeekend(date) == GetDay(date) = 0 \/ GetDay(date) = 6

\* price * (1 + dailyReturn), dailyReturn = (Math.random() - 0.48) * 0.06.
NextPrice(price, u) == price + (price * ((u - 48) * 6)) \div 10000

\* The bar pushed for a kept day, lines 65-77; price is the day's new price
\* and u the values of the four Math.random() calls that follow.
Bar(date, price, u) ==
  [date   |-> DateLabel(date),
   price  |-> ToFixed2(price),
   open   |-> ToFixed2(price + (price * (u[1] - 50)) \div 10000),
   high   |-> ToFixed2(price + (price * (u[2] * 2)) \div 10000),
   low    |-> ToFixed2(price - (price * (u[3] * 2)) \div 10000),
   volume |-> u[4] * (80000000 \div RandMod) + 20000000]

\* One pass of the loop body for offset i, from the running state
\* st = [price, hist, k] (k: the number of Math.random() calls so far).
LoopBody(i, st, now, seed) ==
  IF IsWeekend(now - i) THEN st
  ELSE With(NextPrice(st.price, Random(seed, st.k)),
            LAMBDA price :
              [price |-> price,
               hist  |-> Append(st.hist,
                           Bar(now - i, price,
                               [j \in 1..(DrawsPerBar - 1) |-> Random(seed, st.k + j)])),
               k     |-> st.k + DrawsPerBar])

\* The passes for i = hi, hi - 1, ..., lo in that order.  The range is
\* evaluated in two halves, the second starting from the state the first
\* leaves, which keeps the evaluation shallow for long ranges.
RECURSIVE HistoryLoop(_, _, _, _, _)
HistoryLoop(hi, lo, st, now, seed) ==
  IF hi < lo THEN st
  ELSE IF hi = lo THEN LoopBody(hi, st, now, seed)
  ELSE With((hi + lo + 1) \div 2,
            LAMBDA mid :
              With(HistoryLoop(hi, mid, st, now, seed),
                   LAMBDA first : HistoryLoop(mid - 1, lo, first, now, seed)))

\* generatePriceHistory(symbol, basePrice, days) run on day `now` with the
\* random stream `seed`.
generatePriceHistory(symbol, basePrice, days, now, seed) ==
  HistoryLoop(LoopStart(days), LoopEnd,
              [price |-> basePrice, hist |-> <<>>, k |-> 0], now, seed).hist

-----------------------------------------------------------------------------
(* PriceChart.filteredData *)

Timeframes == {"1W", "1M", "3M", "ALL"}

\* Mutant of Frames: three months are 60 bars.
FramesShortQuarter == [tf \in {"1W", "1M", "3M"} |-> CASE tf = "1W" -> 5
                                                      [] tf = "1M" -> 22
                                                      [] tf = "3M" -> 60]

\* const frames = { "1W": 5, "1M": 22, "3M": 66 }
Frames == [tf \in {"1W", "1M", "3M"} |-> CASE tf = "1W" -> 5
                                           [] tf = "1M" -> 22
                                           [] tf = "3M" -> 66]

\* frames[timeframe] || history.length
FrameCount(hist, tf) ==
  IF tf \in DOMAIN Frames /\ Frames[tf] # 0 THEN Frames[tf] ELSE Len(hist)

\* Array.prototype.slice(start): a negative start counts from the end.
Slice(arr, start) ==
  LET len == Len(arr)
      k   == IF start < 0 THEN (IF len + start > 0 THEN len + start ELSE 0)
             ELSE (IF start < len THEN start ELSE len)
  IN SubSeq(arr, k + 1, len)

\* Mutant of filteredData: the first count entries, history.slice(0, count).
filteredDataFromStart(hist, tf) ==
  SubSeq(hist, 1, IF FrameCount(hist, tf) < Len(hist)
                  THEN FrameCount(hist, tf) ELSE Len(hist))

\* history.slice(-count)
filteredData(hist, tf) == Slice(hist, 0 - FrameCount(hist, tf))

\* filteredData[0]?.price
startPrice(hist, tf) ==
  IF filteredData(hist, tf) = <<>> THEN Null ELSE filteredData(hist, tf)[1].price

-----------------------------------------------------------------------------
(* StockTable: the table projection of lines 367-403 *)

\* The sortable columns (th onClick, lines 443-454).
SortKeys == {"price", "changePercent", "marketCap", "pe"}

\* The fields of a MOCK_STOCKS entry that hold a number (typeof "number").
NumberFields == {"price", "change", "changePercent", "pe"}

\* One character of String.prototype.toLowerCase.
LowerChar(c) ==
  IF \E i \in 1..Len(UpperCase) : UpperCase[i] = c
  THEN LowerCase[CHOOSE i \in 1..Len(UpperCase) : UpperCase[i] = c]
  ELSE c

\* String.prototype.toLowerCase.
ToLowerCase(s) == [i \in 1..Len(s) |-> LowerChar(s[i])]

\* String.prototype.includes.
Includes(s, q) ==
  \E i \in 0..(Len(s) - Len(q)) : SubSeq(s, i + 1, i + Len(q)) = q

\* String.prototype.endsWith, for a one-character suffix.
EndsWith(val, c) == val # <<>> /\ val[Len(val)] = c

Digits == <<"0","1","2","3","4","5","6","7","8","9">>

IsDigit(c) == \E d \in 1..Len(Digits) : Digits[d] = c

DigitValue(c) == (CHOOSE d \in 1..Len(Digits) : Digits[d] = c) - 1

\* The number of digits a text starts with.
RECURSIVE LeadingDigits(_)
LeadingDigits(s) ==
  IF s # <<>> /\ IsDigit(Head(s)) THEN 1 + LeadingDigits(Tail(s)) ELSE 0

\* The value of a text of digits.
RECURSIVE DecimalValue(_)
DecimalValue(ds) ==
  IF ds = <<>> THEN 0
  ELSE 10 * DecimalValue(SubSeq(ds, 1, Len(ds) - 1)) + DigitValue(ds[Len(ds)])

\* parseFloat(val), in hundredths: the digits the text starts with and the
\* digits after a decimal point (two of them are kept; the texts of
\* MOCK_STOCKS have no sign, no exponent and at most two decimals).
ParseFloat(val) ==
  LET n       == LeadingDigits(val)
      rest    == SubSeq(val, n + 1, Len(val))
      decimals == IF rest # <<>> /\ Head(rest) = "."
                  THEN SubSeq(Tail(rest), 1, LeadingDigits(Tail(rest)))
                  ELSE <<>>
  IN DecimalValue(SubSeq(val, 1, n)) * 100
       + DecimalValue(SubSeq(decimals \o <<"0","0">>, 1, 2))

\* Mutant of ParseNumeric: the suffix is ignored (parseFloat alone).
ParseNumericIgnoringSuffix(key, val) ==
  IF key \in NumberFields THEN [m |-> val, e |-> 0]
  ELSE [m |-> ParseFloat(val), e |-> 0]

\* parseNumeric(a[key]), lines 387-394.  The result stands for m * 10^e
\* hundredths: 2.94e12 does not fit a 32-bit integer.
ParseNumeric(key, val) ==
  IF key \in NumberFields THEN [m |-> val, e |-> 0]
  ELSE IF EndsWith(val, "T") THEN [m |-> ParseFloat(val), e |-> 12]
  ELSE IF EndsWith(val, "B") THEN [m |-> ParseFloat(val), e |-> 9]
  ELSE IF EndsWith(val, "M") THEN [m |-> ParseFloat(val), e |-> 6]
  ELSE [m |-> ParseFloat(val), e |-> 0]

RECURSIVE Pow10(_)
Pow10(k) == IF k = 0 THEN 1 ELSE 10 * Pow10(k - 1)

\* av - bv, up to a positive factor: its sign is the sign of the difference.
Minus(av, bv) ==
  LET e0 == IF av.e < bv.e THEN av.e ELSE bv.e
  IN av.m * Pow10(av.e - e0) - bv.m * Pow10(bv.e - e0)

\* The comparator of lines 396-400.
Compare(a, b, key, dir) ==
  IF dir = "asc"
  THEN Minus(ParseNumeric(key, a[key]), ParseNumeric(key, b[key]))
  ELSE Minus(ParseNumeric(key, b[key]), ParseNumeric(key, a[key]))

\* Mutant of Sort: entries that compare equal to an earlier one are dropped.
SortDroppingTies(arr, key, dir) ==
  LET n == Len(arr)
      kept == {i \in 1..n : \A j \in 1..(i - 1) : Compare(arr[j], arr[i], key, dir) # 0}
      Place(i) == Cardinality({j \in kept : Compare(arr[j], arr[i], key, dir) < 0}) + 1
  IN [k \in 1..Cardinality(kept) |-> arr[CHOOSE i \in kept : Place(i) = k]]

\* Mutant of Sort: descending order is the ascending order reversed.
SortReversingAscending(arr, key, dir) ==
  LET n == Len(arr)
      Place(i) == Cardinality({j \in 1..n :
                     \/ Compare(arr[j], arr[i], key, "asc") < 0
                     \/ Compare(arr[j], arr[i], key, "asc") = 0 /\ j < i}) + 1
      asc == [k \in 1..n |-> arr[CHOOSE i \in 1..n : Place(i) = k]]
  IN IF dir = "asc" THEN asc ELSE [k \in 1..n |-> asc[n + 1 - k]]

\* Array.prototype.sort with the comparator of lines 396-400.  The sort is
\* stable (ECMAScript 2019): an entry is placed after the entries that sort
\* before it and after the earlier entries that compare equal to it.
Sort(arr, key, dir) ==
  LET n == Len(arr)
      Place(i) == Cardinality({j \in 1..n :
                     \/ Compare(arr[j], arr[i], key, dir) < 0
                     \/ Compare(arr[j], arr[i], key, dir) = 0 /\ j < i}) + 1
  IN [k \in 1..n |-> arr[CHOOSE i \in 1..n : Place(i) = k]]

\* Mutant of FilterByText: the comparison is case-sensitive on the name.
FilterByTextCaseSensitive(stocks, text) ==
  IF text = <<>> THEN stocks
  ELSE SelectSeq(stocks,
         LAMBDA s : \/ Includes(ToLowerCase(s.symbol), ToLowerCase(text))
                    \/ Includes(s.name, ToLowerCase(text)))

\* The text filter, lines 374-379.
FilterByText(stocks, text) ==
  IF text = <<>> THEN stocks
  ELSE SelectSeq(stocks,
         LAMBDA s : \/ Includes(ToLowerCase(s.symbol), ToLowerCase(text))
                    \/ Includes(ToLowerCase(s.name), ToLowerCase(text)))

\* Mutant of FilterBySector: "All" is compared like any other value.
FilterBySectorNoSentinel(stocks, sector) ==
  SelectSeq(stocks, LAMBDA s : s.sector = sector)

\* The sector filter, lines 382-384.
FilterBySector(stocks, sector) ==
  IF sector = "All" THEN stocks
  ELSE SelectSeq(stocks, LAMBDA s : s.sector = sector)

\* The value of processedStocks, lines 367-403, for a store and a view state.
\* (An entry of the store already carries its key as the field symbol,
\* which is what the map of lines 368-371 adds.)
ProcessedStocks(store, text, sector, key, dir) ==
  Sort(FilterBySector(FilterByText(store, text), sector), key, dir)

\* The options of the sector dropdown, line 348.
Sectors == {"All"} \cup {MOCK_STOCKS[i].sector : i \in 1..Len(MOCK_STOCKS)}

\* Mutant of Render: the entries of MOCK_STOCKS themselves are sorted.
RenderSortingInPlace ==
  /\ mockStocks' = Sort(mockStocks, sortKey', sortDir')
  /\ processedStocks' = FilterBySector(FilterByText(mockStocks', filter'),
                                       sectorFilter')

\* The render after a change of the table's state: useMemo recomputes
\* processedStocks from MOCK_STOCKS.  The map of line 368 makes a new array,
\* which is the one the sort of line 396 reorders.
Render ==
  /\ mockStocks' = mockStocks
  /\ processedStocks' = ProcessedStocks(mockStocks, filter', sectorFilter',
                                        sortKey', sortDir')

\* Mutant of HandleSortSets: the direction is never toggled.
HandleSortSetsDesc(key) == [sortKey |-> key, sortDir |-> "desc"]

\* What handleSort(key) sets, lines 355-360.
HandleSortSets(key) ==
  IF sortKey = key
  THEN [sortKey |-> sortKey, sortDir |-> IF sortDir = "asc" THEN "desc" ELSE "asc"]
  ELSE [sortKey |-> key, sortDir |-> "desc"]

\* The table as first rendered (lines 342-345).
TableMounted ==
  /\ sortKey = "marketCap"
  /\ sortDir = "desc"
  /\ filter = <<>>
  /\ sectorFilter = "All"
  /\ mockStocks = MOCK_STOCKS
  /\ processedStocks = ProcessedStocks(MOCK_STOCKS, <<>>, "All", "marketCap", "desc")

-----------------------------------------------------------------------------
(* useStockData *)

NoCall == [none |-> TRUE]

MsgPrefix == <<"S","y","m","b","o","l"," ","\"">>

MsgSuffix == <<"\""," ","n","o","t"," ","f","o","u","n","d",".",
               " ","T","r","y",":"," ","A","A","P","L",","," ","M","S","F","T",",",
               " ","G","O","O","G","L",","," ","T","S","L","A",","," ","N","V","D","A">>

\* Mutant of NotFoundMessage: the message leaves the symbol out.
NotFoundMessageGeneric(upperSym) == MsgPrefix \o MsgSuffix

\* `Symbol "${upperSym}" not found. Try: AAPL, MSFT, GOOGL, TSLA, NVDA`
NotFoundMessage(upperSym) == MsgPrefix \o upperSym \o MsgSuffix

\* Mutant of UpperSym: the symbol is used as typed.
UpperSymAsTyped(sym) == sym

\* The symbol fetchData looks up and reports: sym.toUpperCase().
UpperSym(sym) == ToUpperCase(sym)

\* { symbol: upperSym, ...stockInfo }
Snapshot(sym, stockInfo) == [stockInfo EXCEPT !.symbol = UpperSym(sym)]

\* stockInfo.price * 0.85, in thousandths.
SeedPrice(stockInfo) == (stockInfo.price * 85) \div 10

\* Mutant of FetchData: the guard of line 115 is missing.
FetchDataNoGuard(sym) ==
  /\ loading' = TRUE
  /\ error' = Null
  /\ pending' = pending \cup {[id |-> issued + 1, sym |-> sym]}
  /\ issued' = issued + 1

\* Mutant of FetchData: setError(null) is missing.
FetchDataKeepsError(sym) ==
  IF sym = <<>>
  THEN UNCHANGED <<loading, error, pending, issued>>
  ELSE /\ loading' = TRUE
       /\ UNCHANGED error
       /\ pending' = pending \cup {[id |-> issued + 1, sym |-> sym]}
       /\ issued' = issued + 1

\* fetchData up to its await (lines 115-121).
FetchData(sym) ==
  IF sym = <<>>
  THEN UNCHANGED <<loading, error, pending, issued>>
  ELSE /\ loading' = TRUE
       /\ error' = Null
       /\ pending' = pending \cup {[id |-> issued + 1, sym |-> sym]}
       /\ issued' = issued + 1

\* Mutant of CatchBlock: the history of the last success is left in place.
CatchBlockKeepsHistory(message) ==
  /\ error' = [message |-> message]
  /\ data' = Null
  /\ UNCHANGED history

\* Mutant of CatchBlock: the error is set, the snapshot is left on display.
CatchBlockKeepsSnapshot(message) ==
  /\ error' = [message |-> message]
  /\ UNCHANGED <<data, history>>

\* The catch block, lines 135-138.
CatchBlock(message) ==
  /\ error' = [message |-> message]
  /\ data' = Null
  /\ history' = <<>>

\* Mutant of FinallyBlock: setLoading(false) is missing.
FinallyBlockMissing == UNCHANGED loading

\* The finally block, line 140.
FinallyBlock == loading' = FALSE

\* Whether the lookup of sym ends in the throw of line 127.
Fails(sym) == StockInfo(UpperSym(sym)) = Null

\* Mutant of Resolve: a call that is no longer the latest issued is dropped
\* when its await ends, and writes nothing.
ResolveLatestOnly(p) ==
  /\ p \in pending
  /\ LET upperSym  == UpperSym(p.sym)
         stockInfo == StockInfo(upperSym)
     IN IF p.id # issued
        THEN UNCHANGED <<data, history, loading, error, call>>
        ELSE /\ IF stockInfo = Null
                THEN /\ CatchBlock(NotFoundMessage(upperSym))
                     /\ UNCHANGED call
                ELSE \E seed \in Seeds :
                       /\ call' = [symbol |-> upperSym,
                                   basePrice |-> SeedPrice(stockInfo),
                                   days |-> DefaultDays, seed |-> seed]
                       /\ data' = Snapshot(p.sym, stockInfo)
                       /\ history' = generatePriceHistory(upperSym,
                                         SeedPrice(stockInfo), DefaultDays, today, seed)
                       /\ UNCHANGED error
             /\ FinallyBlock
  /\ pending' = pending \ {p}
  /\ resolved' = Append(resolved, [id |-> p.id, sym |-> p.sym,
                                   failed |-> Fails(p.sym)])
  /\ UNCHANGED <<tableVars, today, activeSymbol, searchInput, issued, timeframe>>

\* fetchData after its await (lines 123-141), for the call p.  The await of
\* line 121 ends 300 to 800 ms after the call, and calls are made at any
\* time, so calls pending together resume in any order.  (The conjuncts that
\* are cheap to evaluate come first; the handler runs as one step.)
Resolve(p) ==
  /\ p \in pending
  /\ pending' = pending \ {p}
  /\ resolved' = Append(resolved, [id |-> p.id, sym |-> p.sym,
                                   failed |-> Fails(p.sym)])
  /\ UNCHANGED <<tableVars, today, activeSymbol, searchInput, issued, timeframe>>
  /\ FinallyBlock
  /\ LET upperSym  == UpperSym(p.sym)
         stockInfo == StockInfo(upperSym)
     IN IF stockInfo = Null
        THEN /\ CatchBlock(NotFoundMessage(upperSym))
             /\ UNCHANGED call
        ELSE \E seed \in Seeds :
               /\ call' = [symbol |-> upperSym, basePrice |-> SeedPrice(stockInfo),
                           days |-> DefaultDays, seed |-> seed]
               /\ data' = Snapshot(p.sym, stockInfo)
               /\ UNCHANGED error
               /\ history' = generatePriceHistory(upperSym, SeedPrice(stockInfo),
                                                  DefaultDays, today, seed)

\* A call may be issued while the model's bounds allow it.
MayIssue == issued < MaxLookups

-----------------------------------------------------------------------------
(* The hook on its own: any caller, any symbol text *)

SymbolTexts == { <<>>, <<"A","a","p","l">>, <<"z","z","z","z">>, <<" ">> }

\* Largest number of fetchData calls in one run of the hook on its own.
MaxFetches == 2

\* useEffect of lines 145-147 after the symbol prop changed, or refetch(sym).
\* Here activeSymbol is the symbol the hook's fetchData was last called with.
Fetch(sym) ==
  /\ sym # <<>> => issued < MaxFetches
  /\ activeSymbol' = sym
  /\ FetchData(sym)
  /\ UNCHANGED <<tableVars, today, searchInput, data, history,
                 resolved, call, timeframe>>

HookInit ==
  /\ TableMounted
  /\ today \in {FirstToday, FirstToday + 1}
  /\ activeSymbol = <<>>
  /\ searchInput = <<>>
  /\ data = Null
  /\ history = <<>>
  /\ loading = FALSE
  /\ error = Null
  /\ pending = {}
  /\ issued = 0
  /\ resolved = <<>>
  /\ call = NoCall
  /\ timeframe = "3M"

HookNext ==
  \/ \E sym \in SymbolTexts : Fetch(sym)
  \/ \E p \in pending : Resolve(p)

HookSpec == HookInit /\ [][HookNext]_vars

\* A timer set at line 121 fires: while calls are pending, one of them resumes.
HookFairSpec == HookSpec /\ WF_vars(\E p \in pending : Resolve(p))

-----------------------------------------------------------------------------
(* App: the search form, the table rows and the retry button drive the hook *)

\* Texts typed into the search input (maxLength 5).
SearchTexts == { <<>>, <<" ">>, <<"v"," ">>, <<"z","z","z","z">> }

\* Number of table rows (in MOCK_STOCKS order) that get clicked.
MaxRows == 2

TableRows == {MOCK_STOCKS[i].symbol : i \in 1..MaxRows}

\* setActiveSymbol(symbol), then the render and the effect of lines 145-147:
\* the effect runs fetchData when activeSymbol changed.
SetActiveSymbol(symbol) ==
  /\ symbol # activeSymbol => MayIssue
  /\ activeSymbol' = symbol
  /\ IF symbol # activeSymbol
     THEN FetchData(symbol)
     ELSE UNCHANGED <<loading, error, pending, issued>>

\* onChange of the search input, line 1075.
ChangeSearchInput(text) ==
  /\ searchInput' = text
  /\ UNCHANGED <<tableVars, today, activeSymbol, data, history, loading, error, pending,
                 issued, resolved, call, timeframe>>

\* Mutant of HandleSearch: the test of line 515 is missing.
HandleSearchNoGuard ==
  /\ SetActiveSymbol(ToUpperCase(Trim(searchInput)))
  /\ UNCHANGED <<tableVars, today, searchInput, data, history, resolved, call, timeframe>>

\* handleSearch, lines 513-518.
HandleSearch ==
  /\ IF Trim(searchInput) # <<>>
     THEN SetActiveSymbol(ToUpperCase(Trim(searchInput)))
     ELSE UNCHANGED <<activeSymbol, loading, error, pending, issued>>
  /\ UNCHANGED <<tableVars, today, searchInput, data, history, resolved, call, timeframe>>

\* handleTableSelect, lines 521-524.
HandleTableSelect(symbol) ==
  /\ SetActiveSymbol(symbol)
  /\ searchInput' = symbol
  /\ UNCHANGED <<tableVars, today, data, history, resolved, call, timeframe>>

\* The error card with its retry button is rendered (line 1093).
RetryShown == ~loading /\ error # Null

\* The symbol the retry button passes: refetch(activeSymbol), line 1094.
RetryArg == activeSymbol

\* onRetry, line 1094.
Retry ==
  /\ RetryShown
  /\ MayIssue
  /\ FetchData(RetryArg)
  /\ UNCHANGED <<tableVars, today, activeSymbol, searchInput, data, history, resolved,
                 call, timeframe>>

\* The state after the first render and its effect: fetchData("AAPL") pending.
AppInit ==
  /\ TableMounted
  /\ today \in {FirstToday, FirstToday + 1}
  /\ activeSymbol = <<"A","A","P","L">>
  /\ searchInput = <<"A","A","P","L">>
  /\ data = Null
  /\ history = <<>>
  /\ loading = TRUE
  /\ error = Null
  /\ pending = {[id |-> 1, sym |-> <<"A","A","P","L">>]}
  /\ issued = 1
  /\ resolved = <<>>
  /\ call = NoCall
  /\ timeframe = "3M"

AppNext ==
  \/ \E text \in SearchTexts : ChangeSearchInput(text)
  \/ HandleSearch
  \/ \E symbol \in TableRows : HandleTableSelect(symbol)
  \/ Retry
  \/ \E p \in pending : Resolve(p)

AppSpec == AppInit /\ [][AppNext]_vars

-----------------------------------------------------------------------------
(* The generator and the chart projection on their own *)

\* basePrice arguments, in thousandths: 100.
BasePrices == {100000}

\* One call generatePriceHistory(symbol, basePrice, days).
Generate(symbol, basePrice, days, seed) ==
  /\ call = NoCall
  /\ call' = [symbol |-> symbol, basePrice |-> basePrice, days |-> days,
              seed |-> seed]
  /\ history' = generatePriceHistory(symbol, basePrice, days, today, seed)
  /\ UNCHANGED <<tableVars, today, activeSymbol, searchInput, data, loading, error,
                 pending, issued, resolved, timeframe>>

\* setTimeframe(tf), line 266.
SetTimeframe(tf) ==
  /\ timeframe' = tf
  /\ UNCHANGED <<tableVars, today, activeSymbol, searchInput, data, history, loading,
                 error, pending, issued, resolved, call>>

GenInit ==
  /\ TableMounted
  /\ today \in Todays
  /\ activeSymbol = <<"A","A","P","L">>
  /\ searchInput = <<"A","A","P","L">>
  /\ data = Null
  /\ history = <<>>
  /\ loading = FALSE
  /\ error = Null
  /\ pending = {}
  /\ issued = 0
  /\ resolved = <<>>
  /\ call = NoCall
  /\ timeframe = "3M"

GenNext ==
  \/ \E basePrice \in BasePrices, days \in 0..MaxDayCount, seed \in Seeds :
       Generate(<<"A","A","P","L">>, basePrice, days, seed)
  \/ \E tf \in Timeframes : SetTimeframe(tf)

GenSpec == GenInit /\ [][GenNext]_vars

-----------------------------------------------------------------------------
(* The table and the chart once the first lookup has resolved *)

\* Texts typed into the table's filter input (line 422).
FilterTexts == { <<>>, <<"a","p","p","l","e">>, <<"A","P">>, <<"I","n">>,
                 <<"v">>, <<" ">>, <<"z","z">> }

\* Values given to setSectorFilter (line 427): the options of the dropdown,
\* and one value that is the sector of no entry.
SectorValues == Sectors \cup {"Energy"}

\* handleSort(key), lines 354-361, and the render that follows.
HandleSort(key) ==
  /\ sortKey' = HandleSortSets(key).sortKey
  /\ sortDir' = HandleSortSets(key).sortDir
  /\ UNCHANGED <<filter, sectorFilter>>
  /\ Render
  /\ UNCHANGED <<today, activeSymbol, searchInput, data, history, loading,
                 error, pending, issued, resolved, call, timeframe>>

\* setFilter(e.target.value), line 422, and the render that follows.
SetFilter(text) ==
  /\ filter' = text
  /\ UNCHANGED <<sortKey, sortDir, sectorFilter>>
  /\ Render
  /\ UNCHANGED <<today, activeSymbol, searchInput, data, history, loading,
                 error, pending, issued, resolved, call, timeframe>>

\* setSectorFilter(e.target.value), line 427, and the render that follows.
SetSectorFilter(sector) ==
  /\ sectorFilter' = sector
  /\ UNCHANGED <<sortKey, sortDir, filter>>
  /\ Render
  /\ UNCHANGED <<today, activeSymbol, searchInput, data, history, loading,
                 error, pending, issued, resolved, call, timeframe>>

\* The App after its first lookup (AAPL) has resolved.
ViewInit ==
  /\ TableMounted
  /\ today = FirstToday
  /\ activeSymbol = <<"A","A","P","L">>
  /\ searchInput = <<"A","A","P","L">>
  /\ loading = FALSE
  /\ error = Null
  /\ pending = {}
  /\ issued = 1
  /\ resolved = << [id |-> 1, sym |-> <<"A","A","P","L">>, failed |-> FALSE] >>
  /\ timeframe = "3M"
  /\ data = Snapshot(<<"A","A","P","L">>, StockInfo(<<"A","A","P","L">>))
  /\ \E seed \in Seeds :
       /\ call = [symbol |-> <<"A","A","P","L">>,
                  basePrice |-> SeedPrice(StockInfo(<<"A","A","P","L">>)),
                  days |-> DefaultDays, seed |-> seed]
       /\ history = generatePriceHistory(<<"A","A","P","L">>,
                       SeedPrice(StockInfo(<<"A","A","P","L">>)),
                       DefaultDays, today, seed)

ViewNext ==
  \/ \E key \in SortKeys : HandleSort(key)
  \/ \E text \in FilterTexts : SetFilter(text)
  \/ \E sector \in SectorValues : SetSectorFilter(sector)
  \/ \E tf \in Timeframes : SetTimeframe(tf)

ViewSpec == ViewInit /\ [][ViewNext]_vars

-----------------------------------------------------------------------------
(* Properties *)

Last(seq) == seq[Len(seq)]

\* text holds part as a run of consecutive characters.
Names(text, part) ==
  \E i \in 0..(Len(text) - Len(part)) : SubSeq(text, i + 1, i + Len(part)) = part

Quoted(text) == <<"\"">> \o text \o <<"\"">>

AAPL == <<"A","A","P","L">>

MSFT == <<"M","S","F","T">>

ZZZZ == <<"Z","Z","Z","Z">>

\* Call id was the last to resume and stored a snapshot of the uppercased
\* sym with a non-empty history.
StoredSnapshot(id, sym) ==
  /\ resolved # <<>>
  /\ Last(resolved).id = id
  /\ data # Null
  /\ data.symbol = ToUpperCase(sym)
  /\ history # <<>>

\* C1: every lookup issued for a symbol text whose uppercase form is a key of
\* MOCK_STOCKS eventually resolves, and the state it leaves holds a snapshot
\* whose symbol is the uppercased text together with a non-empty history.
C1_ValidLookupResolves ==
  \A id \in 1..MaxFetches : \A sym \in SymbolTexts \ {<<>>} :
    (ToUpperCase(sym) \in StockKeys)
      => (([id |-> id, sym |-> sym] \in pending) ~> StoredSnapshot(id, sym))

\* A lookup typed in mixed case has stored the snapshot of AAPL.
C1_Witness ==
  /\ StoredSnapshot(Last(<<0>> \o [i \in 1..Len(resolved) |-> resolved[i].id]),
                    <<"A","a","p","l">>)
  /\ Last(resolved).sym = <<"A","a","p","l">>
  /\ data.symbol = AAPL
  /\ Len(history) > 0

\* C2: a lookup for a non-empty text whose uppercase form is no key of
\* MOCK_STOCKS resolves to a failure, never a snapshot, and the message
\* names the uppercased text.
C2_UnknownSymbolFails ==
  [][\A p \in pending :
       (p \notin pending' /\ ToUpperCase(p.sym) \notin StockKeys)
         => /\ error' # Null
            /\ Names(error'.message, Quoted(ToUpperCase(p.sym)))
            /\ data' = Null
            /\ history' = <<>>]_vars

\* The lookup of "zzzz" has failed with a message naming "ZZZZ".
C2_Witness ==
  /\ resolved # <<>>
  /\ Last(resolved).sym = <<"z","z","z","z">>
  /\ error # Null
  /\ Names(error.message, Quoted(ZZZZ))
  /\ data = Null

\* C3: when a lookup resolves with a failure, data becomes null, history
\* becomes empty and error holds the failure message, whatever snapshot was
\* displayed before.
C3_FailureClearsSnapshot ==
  [][(Len(resolved') = Len(resolved) + 1 /\ Last(resolved').failed)
       => /\ data' = Null
          /\ history' = <<>>
          /\ error' = [message |-> NotFoundMessage(ToUpperCase(Last(resolved').sym))]]_vars

\* A failure resolved after a snapshot had been stored, and cleared it.
C3_Witness ==
  /\ Len(resolved) >= 2
  /\ Last(resolved).failed
  /\ ~resolved[Len(resolved) - 1].failed
  /\ data = Null
  /\ history = <<>>
  /\ error # Null

\* data and history are the outcome of the call that resumed last.
ReflectsLast ==
  LET l == Last(resolved)
      u == ToUpperCase(l.sym)
  IN IF u \in StockKeys
     THEN /\ data # Null
          /\ data.symbol = u
          /\ call # NoCall
          /\ call.symbol = u
          /\ history = generatePriceHistory(u, call.basePrice, DefaultDays,
                                            today, call.seed)
     ELSE /\ data = Null
          /\ history = <<>>
          /\ error = [message |-> NotFoundMessage(u)]

C5_LoadingWhilePending == pending # {} => loading = TRUE

\* The lookup whose failure set the error on display: the last failure in
\* the order of resolution.
RECURSIVE LastFailure(_)
LastFailure(log) ==
  IF log = <<>> THEN Null
  ELSE IF Last(log).failed THEN Last(log)
  ELSE LastFailure(SubSeq(log, 1, Len(log) - 1))

\* C6: whenever the retry button is on display, the symbol its activation
\* passes to the lookup is the symbol of the lookup whose failure produced
\* the error on display.
C6_RetrySameLookup ==
  RetryShown => (LastFailure(resolved) # Null
                 /\ RetryArg = LastFailure(resolved).sym)

\* The generator was called with days = 7.
SevenDayCall == call # NoCall /\ call.days = 7

Window == (today - call.days) .. today

\* C8: for dayCount >= 2 the result is non-empty, and the result is empty only
\* when every calendar day of the window is a Saturday or a Sunday.
C8_NonEmptyFromTwo ==
  call # NoCall =>
    /\ call.days >= 2 => history # <<>>
    /\ history = <<>> => \A d \in Window : GetDay(d) \in {0, 6}

\* A call with dayCount = 2 on a Monday: the window is Saturday, Sunday,
\* Monday and the result has its single bar.
C8_Witness ==
  /\ call # NoCall
  /\ call.days = 2
  /\ GetDay(today) = 1
  /\ Len(history) = 1

\* The Monday-to-Friday days of the window.
WindowWeekdays == {d \in Window : GetDay(d) \in 1..5}

\* The position of weekday d among them, oldest first.
Rank(d) == Cardinality({e \in WindowWeekdays : e <= d})

FrameSize(tf) ==
  CASE tf = "1W" -> 5
    [] tf = "1M" -> 22
    [] tf = "3M" -> 66
    [] OTHER -> Len(history)

\* C10: for every history and every timeframe the chart projection is the
\* last N entries of history in their order, N = 5, 22, 66 or the length of
\* history: it has min(N, length) entries, none for an empty history.
C10_SliceIsSuffix ==
  LET n == IF FrameSize(timeframe) < Len(history)
           THEN FrameSize(timeframe) ELSE Len(history)
      r == filteredData(history, timeframe)
  IN /\ Len(r) = n
     /\ \A i \in 1..n : r[i] = history[Len(history) - n + i]
     /\ history = <<>> => r = <<>>

\* A history longer than a month is cut to its last 22 bars.
C10_Witness ==
  /\ timeframe = "1M"
  /\ Len(history) > 22
  /\ Len(filteredData(history, timeframe)) = 22
  /\ filteredData(history, timeframe)[22] = history[Len(history)]
  /\ filteredData(history, timeframe)[1] # history[1]

-----------------------------------------------------------------------------
(* The table projection *)

\* The rows of a sequence, as a set.
RowSet(rows) == {rows[i] : i \in 1..Len(rows)}

\* The position of the row of a symbol in processedStocks.
RowOf(symbol) ==
  CHOOSE i \in 1..Len(processedStocks) : processedStocks[i].symbol = symbol

\* The position of a row in MOCK_STOCKS.
StoreIndex(row) ==
  CHOOSE i \in 1..Len(MOCK_STOCKS) : MOCK_STOCKS[i].symbol = row.symbol

\* text contains q at some position, letter case aside.
ContainsCI(text, q) ==
  \E i \in 0..(Len(text) - Len(q)) :
    \A k \in 1..Len(q) : UpperChar(text[i + k]) = UpperChar(q[k])

APPLE == <<"a","p","p","l","e">>

TSLA == <<"T","S","L","A">>

VISA == <<"V">>

\* C11: with sectorFilter = "All", the table projection holds exactly the
\* rows of the store whose symbol or name contains the text filter as a
\* substring, letter case aside (every row when the filter is empty), each
\* once; for the filter "apple" that is exactly the AAPL row.
C11_TextFilterMatches ==
  sectorFilter = "All" =>
    /\ RowSet(processedStocks)
         = {r \in RowSet(MOCK_STOCKS) :
              ContainsCI(r.symbol, filter) \/ ContainsCI(r.name, filter)}
    /\ Cardinality(RowSet(processedStocks)) = Len(processedStocks)
    /\ filter = <<>> => Len(processedStocks) = Len(MOCK_STOCKS)
    /\ filter = APPLE =>
         {processedStocks[i].symbol : i \in 1..Len(processedStocks)} = {AAPL}

C11_Witness ==
  /\ filter = APPLE
  /\ sectorFilter = "All"
  /\ Len(processedStocks) = 1
  /\ processedStocks[1].symbol = AAPL

\* The numeric value of a row's field: a number field as itself (in
\* hundredths), a market cap as its leading number times 10^12 (T), 10^9 (B)
\* or 10^6 (M), here in units of 10^7.
Worth(row, key) ==
  IF key # "marketCap" THEN row[key]
  ELSE CASE Last(row.marketCap) = "T" -> ParseFloat(row.marketCap) * 1000
         [] Last(row.marketCap) = "B" -> ParseFloat(row.marketCap)
         [] OTHER -> ParseFloat(row.marketCap) \div 1000

\* C12: for every sort key and direction the rows of the table projection
\* are in non-decreasing (asc) or non-increasing (desc) order of the numeric
\* value of the sort key's field; by marketCap desc, MSFT (3.08T) comes
\* before AAPL (2.94T), which comes before TSLA (792B).
C12_SortedByNumericValue ==
  /\ sortKey \in SortKeys
  /\ \A i \in 1..(Len(processedStocks) - 1) :
       IF sortDir = "asc"
       THEN Worth(processedStocks[i], sortKey) <= Worth(processedStocks[i + 1], sortKey)
       ELSE Worth(processedStocks[i], sortKey) >= Worth(processedStocks[i + 1], sortKey)
  /\ (sortKey = "marketCap" /\ sortDir = "desc" /\ filter = <<>>
        /\ sectorFilter = "All")
       => (RowOf(MSFT) < RowOf(AAPL) /\ RowOf(AAPL) < RowOf(TSLA))

C12_Witness ==
  /\ sortKey = "marketCap"
  /\ sortDir = "asc"
  /\ Len(processedStocks) = 10
  /\ RowOf(TSLA) < RowOf(AAPL)
  /\ RowOf(AAPL) < RowOf(MSFT)

\* C13: the sector filter keeps exactly the rows whose sector is the filter
\* value, and "All" keeps every row; a value that is the sector of no row
\* gives the empty sequence, and no error is set.
C13_SectorFilterExact ==
  /\ filter = <<>> =>
       RowSet(processedStocks)
         = {r \in RowSet(MOCK_STOCKS) :
              sectorFilter = "All" \/ r.sector = sectorFilter}
  /\ sectorFilter # "All" =>
       \A i \in 1..Len(processedStocks) : processedStocks[i].sector = sectorFilter
  /\ (sectorFilter # "All"
        /\ \A r \in RowSet(MOCK_STOCKS) : r.sector # sectorFilter)
       => (processedStocks = <<>> /\ error = Null)

C13_Witness ==
  /\ sectorFilter = "Energy"
  /\ filter = <<>>
  /\ processedStocks = <<>>
  /\ error = Null

\* C14: with the default filters (empty text, sector "All") the table
\* projection holds every entry of the store exactly once, for every sort key
\* and direction: 10 rows.
C14_DefaultShowsAll ==
  (filter = <<>> /\ sectorFilter = "All") =>
    /\ Len(processedStocks) = 10
    /\ Cardinality(StockKeys) = 10
    /\ RowSet(processedStocks) = RowSet(MOCK_STOCKS)

C14_Witness ==
  /\ filter = <<>>
  /\ sectorFilter = "All"
  /\ sortKey = "changePercent"
  /\ sortDir = "asc"
  /\ Len(processedStocks) = 10

\* C15: rows whose sort-key values are equal are in the store's order, in
\* either direction; AAPL and V (changePercent 0.66 both) come AAPL first.
C15_TiesKeepStoreOrder ==
  /\ \A i, j \in 1..Len(processedStocks) :
       (i < j /\ Worth(processedStocks[i], sortKey) = Worth(processedStocks[j], sortKey))
         => StoreIndex(processedStocks[i]) < StoreIndex(processedStocks[j])
  /\ (sortKey = "changePercent" /\ filter = <<>> /\ sectorFilter = "All")
       => RowOf(AAPL) < RowOf(VISA)

C15_Witness ==
  /\ sortKey = "changePercent"
  /\ sortDir = "desc"
  /\ filter = <<>>
  /\ sectorFilter = "All"
  /\ RowOf(AAPL) + 1 = RowOf(VISA)

\* C16: a lookup called with the empty text changes none of loading, error,
\* data and history and starts no pending request.
C16_EmptyLookupNoOp ==
  [][(activeSymbol' = <<>> /\ activeSymbol # <<>>)
       => UNCHANGED <<loading, error, data, history, pending, issued>>]_vars

C16_Witness ==
  /\ activeSymbol = <<>>
  /\ loading = TRUE
  /\ pending # {}
  /\ \A p \in pending : p.sym # <<>>
  /\ issued = Cardinality(pending) + Len(resolved)

C18_HandleSortTogglesOrSwitches ==
  /\ [](\A key \in SortKeys :
          IF key = sortKey
          THEN /\ HandleSortSets(key).sortKey = sortKey
               /\ HandleSortSets(key).sortDir \in {"asc", "desc"} \ {sortDir}
          ELSE /\ HandleSortSets(key).sortKey = key
               /\ HandleSortSets(key).sortDir = "desc")
  /\ [][(sortKey' # sortKey \/ sortDir' # sortDir)
          => /\ UNCHANGED <<filter, sectorFilter>>
             /\ IF sortKey' = sortKey
                THEN sortDir' \in {"asc", "desc"} \ {sortDir}
                ELSE sortDir' = "desc"]_vars

C18_Witness ==
  /\ sortKey = "pe"
  /\ sortDir = "asc"
  /\ filter = APPLE
  /\ sectorFilter = "Technology"

\* C19: issuing a lookup sets loading and clears error and leaves data and
\* history alone; data and history change only when a lookup resolves.
C19_IssueSetsLoadingOnly ==
  /\ [][issued' # issued
          => /\ loading' = TRUE
             /\ error' = Null
             /\ UNCHANGED <<data, history>>]_vars
  /\ [][(data' # data \/ history' # history)
          => /\ Len(resolved') = Len(resolved) + 1
             /\ pending' # pending]_vars

C19_Witness ==
  /\ loading = TRUE
  /\ error = Null
  /\ data # Null
  /\ history # <<>>
  /\ pending # {}
  /\ resolved # <<>>

\* C20: an error message and a snapshot are never both present.
C20_ErrorExcludesSnapshot == error # Null => data = Null

-----------------------------------------------------------------------------
(* The hook's state, the active symbol and the 90-day history *)

\* C21: when no lookup is pending, loading is false: once every lookup
\* requested has resolved, with a snapshot or with a failure, the loading
\* indicator is off.
C21_IdleMeansNotLoading == pending = {} => loading = FALSE

C21_Witness ==
  /\ pending = {}
  /\ loading = FALSE
  /\ Len(resolved) = 2
  /\ ~resolved[1].failed
  /\ resolved[2].failed
  /\ error # Null

\* C22: data is null exactly when history is empty, and a snapshot comes
\* with the history that the lookup which stored it generated.
C22_DataAndHistoryAgree ==
  /\ data = Null <=> history = <<>>
  /\ data # Null =>
       /\ call # NoCall
       /\ call.symbol = data.symbol
       /\ call.days = DefaultDays
       /\ history = generatePriceHistory(call.symbol, call.basePrice,
                                         call.days, today, call.seed)

C22_Witness ==
  /\ Len(resolved) = 2
  /\ resolved[1].failed
  /\ ~resolved[2].failed
  /\ data # Null
  /\ Len(history) > 1

\* A text that is empty or made of spaces.
Blank(text) == \A i \in 1..Len(text) : text[i] = " "

\* C23: activeSymbol is never empty nor made of spaces: it changes only by
\* a table selection, which sets activeSymbol and searchInput to a symbol of
\* the store, or by a submission of a search input that is not blank, which
\* sets it to the input trimmed and uppercased.
C23_ActiveSymbolNeverBlank ==
  /\ [](~Blank(activeSymbol))
  /\ [][activeSymbol' # activeSymbol
          => \/ /\ searchInput' = activeSymbol'
                /\ activeSymbol' \in StockKeys
             \/ /\ UNCHANGED searchInput
                /\ ~Blank(searchInput)
                /\ activeSymbol' = ToUpperCase(Trim(searchInput))]_vars

C23_Witness ==
  /\ searchInput = <<"v"," ">>
  /\ activeSymbol = <<"V">>
  /\ issued = 2

====
